---- MODULE Spec2Model ----
(***************************************************************************)
(* Agent invocation layer of the gateway: ChatHandler.ServeHTTP derives a  *)
(* per-call context, Invoker.InvokeAgent resolves the agent, guards the    *)
(* call with the agent's gobreaker circuit breaker and runs doHTTP.        *)
(*                                                                         *)
(* Time is a discrete clock in seconds.  Every request runs in its own     *)
(* goroutine; the requests whose network call is under way form the bag    *)
(* calls.  The breaker's beforeRequest and afterRequest run under the      *)
(* breaker's mutex, so each is one atomic step; the network wait between   *)
(* them is where requests interleave and time passes.                      *)
(***************************************************************************)
EXTENDS Integers, Sequences, FiniteSets, Bags, TLC

VARIABLES now, cfg, cbs, calls, last, hist

vars == <<now, cfg, cbs, calls, last, hist>>

----------------------------------------------------------------------------
(* Bounds of the model *)

MaxInFlight == 2
MaxTicks == 10
MaxCalls == 6

----------------------------------------------------------------------------
(* Configuration *)

Agents == {"venta", "cita", "reserva", "citas_ventas"}

DefaultAgentTimeoutSec == 30

DefaultReadTimeoutSec == 30
DefaultWriteTimeoutSec == 30
DefaultIdleTimeoutSec == 60

DefaultConfig ==
  [ AgentTimeoutSec |-> DefaultAgentTimeoutSec,
    ReadTimeoutSec |-> DefaultReadTimeoutSec,
    WriteTimeoutSec |-> DefaultWriteTimeoutSec,
    IdleTimeoutSec |-> DefaultIdleTimeoutSec,
    Enabled |-> [a \in Agents |-> TRUE],
    URL |-> [a \in Agents |-> "http://agent/api/chat"] ]

(* The combined agent is looked up under the cita agent's URL *)
AgentURLCitaForBoth(agent) ==
  CASE agent = "venta" -> cfg.URL["venta"]
    [] agent = "cita" -> cfg.URL["cita"]
    [] agent = "reserva" -> cfg.URL["reserva"]
    [] agent = "citas_ventas" -> cfg.URL["cita"]
    [] OTHER -> ""

AgentURL(agent) == IF agent \in Agents THEN cfg.URL[agent] ELSE ""

(* url.Parse on the URL texts the deployments use: scheme, host, path and  *)
(* query, or an error for a text without a scheme.                         *)
urlParse(s) ==
  CASE s = "http://agent/api/chat" ->
         [ok |-> TRUE, scheme |-> "http", host |-> "agent", path |-> "/api/chat", query |-> ""]
    [] s = "http://venta:8001/api/chat?v=1" ->
         [ok |-> TRUE, scheme |-> "http", host |-> "venta:8001", path |-> "/api/chat",
          query |-> "v=1"]
    [] s = "https://cita.internal/chat" ->
         [ok |-> TRUE, scheme |-> "https", host |-> "cita.internal", path |-> "/chat",
          query |-> ""]
    [] s = "http://reserva:8003" ->
         [ok |-> TRUE, scheme |-> "http", host |-> "reserva:8003", path |-> "", query |-> ""]
    [] s = "://ambos/api/chat" ->
         [ok |-> FALSE, scheme |-> "", host |-> "", path |-> "", query |-> ""]

(* URL.String for a URL with a host *)
urlString(u) ==
  u.scheme \o "://" \o u.host \o u.path \o (IF u.query = "" THEN "" ELSE "?" \o u.query)

AgentHealthURL(agent) ==
  LET base == AgentURL(agent)
  IN IF base = "" THEN ""
     ELSE IF ~urlParse(base).ok THEN ""
     ELSE urlString([urlParse(base) EXCEPT !.path = "/health", !.query = ""])

(* Every registered agent counts as enabled *)
AgentEnabledAll(agent) == agent \in Agents

AgentEnabled(agent) == IF agent \in Agents THEN cfg.Enabled[agent] ELSE FALSE

AgentTimeout == cfg.AgentTimeoutSec

----------------------------------------------------------------------------
(* gobreaker settings given by NewInvoker *)

MaxRequests == 3
Interval == 60
Timeout == 60
Threshold == 5

StateClosed == "closed"
StateHalfOpen == "half-open"
StateOpen == "open"

NoErr == "nil"
ErrOpenState == "circuit breaker is open"
ErrTooManyRequests == "too many requests"

ZeroTime == -1

ZeroCounts ==
  [ Requests |-> 0, TotalSuccesses |-> 0, TotalFailures |-> 0,
    ConsecutiveSuccesses |-> 0, ConsecutiveFailures |-> 0 ]

(* A trip one failure late *)
ReadyToTripLate(counts) == counts.ConsecutiveFailures > Threshold

ReadyToTrip(counts) == counts.ConsecutiveFailures >= Threshold

countsOnRequest(c) == [c EXCEPT !.Requests = @ + 1]

(* A success that leaves the run of failures standing *)
countsOnSuccessKeep(c) ==
  [c EXCEPT !.TotalSuccesses = @ + 1,
            !.ConsecutiveSuccesses = @ + 1]

countsOnSuccess(c) ==
  [c EXCEPT !.TotalSuccesses = @ + 1,
            !.ConsecutiveSuccesses = @ + 1,
            !.ConsecutiveFailures = 0]

countsOnFailure(c) ==
  [c EXCEPT !.TotalFailures = @ + 1,
            !.ConsecutiveFailures = @ + 1,
            !.ConsecutiveSuccesses = 0]

(* A breaker is [name, state, generation, counts, expiry, log]; log is the  *)
(* sequence of OnStateChange callbacks the breaker has made, in order.      *)

toNewGeneration(b, t) ==
  [b EXCEPT !.generation = @ + 1,
            !.counts = ZeroCounts,
            !.expiry = CASE b.state = StateClosed ->
                              IF Interval = 0 THEN ZeroTime ELSE t + Interval
                         [] b.state = StateOpen -> t + Timeout
                         [] OTHER -> ZeroTime]

OnStateChange(name, from, to) == [agent |-> name, from |-> from, to |-> to]

(* Closing the breaker is not reported *)
setStateQuietClose(b, state, t) ==
  IF b.state = state
    THEN b
    ELSE LET nb == toNewGeneration([b EXCEPT !.state = state], t)
         IN IF state = StateClosed THEN nb
            ELSE [nb EXCEPT !.log = Append(@, OnStateChange(b.name, b.state, state))]

setState(b, state, t) ==
  IF b.state = state
    THEN b
    ELSE LET nb == toNewGeneration([b EXCEPT !.state = state], t)
         IN [nb EXCEPT !.log = Append(@, OnStateChange(b.name, b.state, state))]

(* A Closed breaker whose window never ends *)
currentStateOneWindow(b, t) ==
  CASE b.state = StateOpen ->
         IF b.expiry < t THEN setState(b, StateHalfOpen, t) ELSE b
    [] OTHER -> b

(* An Open breaker whose cool-down has run out is Closed again *)
currentStateStraightClose(b, t) ==
  CASE b.state = StateClosed ->
         IF b.expiry # ZeroTime /\ b.expiry < t THEN toNewGeneration(b, t) ELSE b
    [] b.state = StateOpen ->
         IF b.expiry < t THEN setState(b, StateClosed, t) ELSE b
    [] OTHER -> b

currentState(b, t) ==
  CASE b.state = StateClosed ->
         IF b.expiry # ZeroTime /\ b.expiry < t THEN toNewGeneration(b, t) ELSE b
    [] b.state = StateOpen ->
         IF b.expiry < t THEN setState(b, StateHalfOpen, t) ELSE b
    [] OTHER -> b

(* A refusal by an Open breaker starts its cool-down again *)
beforeRequestRearm(b, t) ==
  LET c == currentState(b, t)
  IN IF c.state = StateOpen
       THEN [cb |-> [c EXCEPT !.expiry = t + Timeout], generation |-> c.generation,
             err |-> ErrOpenState]
     ELSE IF c.state = StateHalfOpen /\ c.counts.Requests >= MaxRequests
       THEN [cb |-> c, generation |-> c.generation, err |-> ErrTooManyRequests]
     ELSE [cb |-> [c EXCEPT !.counts = countsOnRequest(@)],
           generation |-> c.generation, err |-> NoErr]

(* The probe limit applies in every state *)
beforeRequestLimitAlways(b, t) ==
  LET c == currentState(b, t)
  IN IF c.state = StateOpen
       THEN [cb |-> c, generation |-> c.generation, err |-> ErrOpenState]
     ELSE IF c.counts.Requests >= MaxRequests
       THEN [cb |-> c, generation |-> c.generation, err |-> ErrTooManyRequests]
     ELSE [cb |-> [c EXCEPT !.counts = countsOnRequest(@)],
           generation |-> c.generation, err |-> NoErr]

(* A Half-Open breaker that admits one probe too many *)
beforeRequestOneMore(b, t) ==
  LET c == currentState(b, t)
  IN IF c.state = StateOpen
       THEN [cb |-> c, generation |-> c.generation, err |-> ErrOpenState]
     ELSE IF c.state = StateHalfOpen /\ c.counts.Requests > MaxRequests
       THEN [cb |-> c, generation |-> c.generation, err |-> ErrTooManyRequests]
     ELSE [cb |-> [c EXCEPT !.counts = countsOnRequest(@)],
           generation |-> c.generation, err |-> NoErr]

(* An Open breaker that lets the request through *)
beforeRequestOpenPass(b, t) ==
  LET c == currentState(b, t)
  IN IF c.state = StateHalfOpen /\ c.counts.Requests >= MaxRequests
       THEN [cb |-> c, generation |-> c.generation, err |-> ErrTooManyRequests]
     ELSE [cb |-> [c EXCEPT !.counts = countsOnRequest(@)],
           generation |-> c.generation, err |-> NoErr]

beforeRequest(b, t) ==
  LET c == currentState(b, t)
  IN IF c.state = StateOpen
       THEN [cb |-> c, generation |-> c.generation, err |-> ErrOpenState]
     ELSE IF c.state = StateHalfOpen /\ c.counts.Requests >= MaxRequests
       THEN [cb |-> c, generation |-> c.generation, err |-> ErrTooManyRequests]
     ELSE [cb |-> [c EXCEPT !.counts = countsOnRequest(@)],
           generation |-> c.generation, err |-> NoErr]

onSuccess(b, t) ==
  CASE b.state = StateClosed -> [b EXCEPT !.counts = countsOnSuccess(@)]
    [] b.state = StateHalfOpen ->
         LET c == [b EXCEPT !.counts = countsOnSuccess(@)]
         IN IF c.counts.ConsecutiveSuccesses >= MaxRequests
              THEN setState(c, StateClosed, t)
              ELSE c
    [] OTHER -> b

(* A failed probe that leaves the breaker Half-Open *)
onFailureProbeIgnored(b, t) ==
  CASE b.state = StateClosed ->
         LET c == [b EXCEPT !.counts = countsOnFailure(@)]
         IN IF ReadyToTrip(c.counts) THEN setState(c, StateOpen, t) ELSE c
    [] OTHER -> b

onFailure(b, t) ==
  CASE b.state = StateClosed ->
         LET c == [b EXCEPT !.counts = countsOnFailure(@)]
         IN IF ReadyToTrip(c.counts) THEN setState(c, StateOpen, t) ELSE c
    [] b.state = StateHalfOpen -> setState(b, StateOpen, t)
    [] OTHER -> b

(* A failure is recorded whatever generation admitted the call *)
afterRequestLateFailure(b, before, success, t) ==
  LET c == currentState(b, t)
  IN IF c.generation # before /\ success
       THEN c
       ELSE IF success THEN onSuccess(c, t) ELSE onFailure(c, t)

(* An outcome recorded whatever generation admitted the call *)
afterRequestAnyGeneration(b, before, success, t) ==
  LET c == currentState(b, t)
  IN IF success THEN onSuccess(c, t) ELSE onFailure(c, t)

afterRequest(b, before, success, t) ==
  LET c == currentState(b, t)
  IN IF c.generation # before
       THEN c
       ELSE IF success THEN onSuccess(c, t) ELSE onFailure(c, t)

NewCircuitBreaker(name) ==
  toNewGeneration(
    [name |-> name, state |-> StateClosed, generation |-> 0,
     counts |-> ZeroCounts, expiry |-> ZeroTime, log |-> << >>], 0)

----------------------------------------------------------------------------
(* Results and backend behaviours *)

Nil == "<nil>"

ErrDisabled == "agent is disabled"
ErrNoURL == "no URL configured for agent"
ErrUnknown == "unknown agent"
ErrHTTPDo == "http do: transport"
ErrHTTPDeadline == "http do: context deadline exceeded"
ErrHTTPCanceled == "http do: context canceled"
ErrStatus == "agent returned status"
ErrDecode == "decode response"

StatusOK == 200

EmptyResult == [Reply |-> "", URL |-> Nil, err |-> NoErr]

Failure(e) == [Reply |-> "", URL |-> Nil, err |-> e]

(* What the backend does with one request: the connection fails, or it     *)
(* answers with a status and a body; a body that decodes carries a reply   *)
(* and a url.  body is the length of the response body in chunks, value    *)
(* the number of chunks json.Decoder has taken from it when Decode         *)
(* returns (the end of the first JSON value, or the syntax error).         *)
Behaviours ==
  { [kind |-> "neterr", status |-> 0, decodes |-> FALSE, reply |-> "", url |-> "",
     body |-> 0, value |-> 0],
    [kind |-> "resp", status |-> 500, decodes |-> FALSE, reply |-> "", url |-> "",
     body |-> 2, value |-> 1],
    [kind |-> "resp", status |-> StatusOK, decodes |-> FALSE, reply |-> "", url |-> "",
     body |-> 2, value |-> 1],
    [kind |-> "resp", status |-> StatusOK, decodes |-> TRUE, reply |-> "hola", url |-> "",
     body |-> 1, value |-> 1],
    [kind |-> "resp", status |-> StatusOK, decodes |-> TRUE, reply |-> "pague",
     url |-> "http://pago", body |-> 1, value |-> 1] }

(* A backend that accepts the connection and never answers *)
Hang == [kind |-> "hang", status |-> 0, decodes |-> FALSE, reply |-> "", url |-> "",
         body |-> 0, value |-> 0]

(* The context handed to InvokeAgent: context.WithTimeout(r.Context(), d).  *)
(* r.Context() carries no deadline of its own; it is done once the caller   *)
(* has gone away.                                                           *)
(* A context bounded by twice the agent timeout *)
WithTimeoutDouble(callerDone, t, d) ==
  [deadline |-> t + d + d, callerDone |-> callerDone, released |-> FALSE]

WithTimeout(callerDone, t, d) ==
  [deadline |-> t + d, callerDone |-> callerDone, released |-> FALSE]

(* The derived context is left to its timer *)
cancelByTimer(ctx, t) == [ctx EXCEPT !.released = t >= ctx.deadline]

(* The deferred cancel() of the derived context, run at time t *)
cancel(ctx, t) == [ctx EXCEPT !.released = TRUE]

(* A context that only the caller can end *)
ctxDoneNoDeadline(ctx, t) == ctx.callerDone

ctxDone(ctx, t) == ctx.callerDone \/ t >= ctx.deadline

(* Every ended context reports the deadline *)
ctxErrDeadlineOnly(ctx) == ErrHTTPDeadline

ctxErr(ctx) == IF ctx.callerDone THEN ErrHTTPCanceled ELSE ErrHTTPDeadline

(* A call whose context ended is reported as a reply without error *)
doHTTPCtxQuiet(ctx, t, beh) ==
  IF ctxDone(ctx, t) THEN EmptyResult
  ELSE IF beh.kind = "neterr" THEN Failure(ErrHTTPDo)
  ELSE IF beh.status # StatusOK THEN Failure(ErrStatus)
  ELSE IF ~beh.decodes THEN Failure(ErrDecode)
  ELSE [Reply |-> beh.reply,
        URL |-> IF beh.url = "" THEN Nil ELSE beh.url,
        err |-> NoErr]

(* A response with a bad status passes as an empty reply *)
doHTTPStatusIgnored(ctx, t, beh) ==
  IF ctxDone(ctx, t) THEN Failure(ctxErr(ctx))
  ELSE IF beh.kind = "neterr" THEN Failure(ErrHTTPDo)
  ELSE IF beh.status # StatusOK THEN EmptyResult
  ELSE IF ~beh.decodes THEN Failure(ErrDecode)
  ELSE [Reply |-> beh.reply,
        URL |-> IF beh.url = "" THEN Nil ELSE beh.url,
        err |-> NoErr]

(* Any status from 200 to 299 passes *)
doHTTPAny2xx(ctx, t, beh) ==
  IF ctxDone(ctx, t) THEN Failure(ctxErr(ctx))
  ELSE IF beh.kind = "neterr" THEN Failure(ErrHTTPDo)
  ELSE IF beh.status < 200 \/ beh.status > 299 THEN Failure(ErrStatus)
  ELSE IF ~beh.decodes THEN Failure(ErrDecode)
  ELSE [Reply |-> beh.reply,
        URL |-> IF beh.url = "" THEN Nil ELSE beh.url,
        err |-> NoErr]

(* An empty url is handed on as it came *)
doHTTPKeepEmptyURL(ctx, t, beh) ==
  IF ctxDone(ctx, t) THEN Failure(ctxErr(ctx))
  ELSE IF beh.kind = "neterr" THEN Failure(ErrHTTPDo)
  ELSE IF beh.status # StatusOK THEN Failure(ErrStatus)
  ELSE IF ~beh.decodes THEN Failure(ErrDecode)
  ELSE [Reply |-> beh.reply, URL |-> beh.url, err |-> NoErr]

doHTTP(ctx, t, beh) ==
  IF ctxDone(ctx, t) THEN Failure(ctxErr(ctx))
  ELSE IF beh.kind = "neterr" THEN Failure(ErrHTTPDo)
  ELSE IF beh.status # StatusOK THEN Failure(ErrStatus)
  ELSE IF ~beh.decodes THEN Failure(ErrDecode)
  ELSE [Reply |-> beh.reply,
        URL |-> IF beh.url = "" THEN Nil ELSE beh.url,
        err |-> NoErr]

(* No response: client.Do returned an error *)
NoResponse == [kind |-> "none", status |-> 0, decodes |-> FALSE, reply |-> "", url |-> "",
               body |-> 0, value |-> 0]

(* The response client.Do handed to doHTTP *)
received(ctx, t, beh) ==
  IF ctxDone(ctx, t) \/ beh.kind # "resp" THEN NoResponse ELSE beh

(* The chunks of the response body that doHTTP has not read when the       *)
(* deferred resp.Body.Close() runs.                                        *)
bodyUnread(ctx, t, beh) ==
  IF ctxDone(ctx, t) \/ beh.kind # "resp" THEN 0
  ELSE IF beh.status # StatusOK THEN beh.body
  ELSE beh.body - beh.value

(* A return that carries the reply only *)
(* The failure's text is handed back as the reply *)
InvokeReturnErrText(res) ==
  IF res.err # NoErr THEN [Reply |-> res.err, URL |-> Nil, err |-> res.err]
  ELSE [Reply |-> res.Reply, URL |-> res.URL, err |-> NoErr]

InvokeReturnReplyOnly(res) ==
  IF res.err # NoErr THEN Failure(res.err)
  ELSE [Reply |-> res.Reply, URL |-> Nil, err |-> NoErr]

(* What InvokeAgent hands back from the result of cb.Execute *)
InvokeReturn(res) ==
  IF res.err # NoErr THEN Failure(res.err)
  ELSE [Reply |-> res.Reply, URL |-> res.URL, err |-> NoErr]

----------------------------------------------------------------------------
(* Loading the configuration *)

(* An environment variable is unset or holds a text, a sequence of         *)
(* characters.                                                             *)
Unset == [set |-> FALSE, text |-> << >>]

EnvText(t) == [set |-> TRUE, text |-> t]

Digits == {"0", "1", "2", "3", "4", "5", "6", "7", "8", "9"}

DigitValue(d) ==
  CASE d = "0" -> 0 [] d = "1" -> 1 [] d = "2" -> 2 [] d = "3" -> 3 [] d = "4" -> 4
    [] d = "5" -> 5 [] d = "6" -> 6 [] d = "7" -> 7 [] d = "8" -> 8 [] d = "9" -> 9

(* The integer a text of decimal digits stands for *)
RECURSIVE ParseDigits(_)
ParseDigits(t) ==
  IF t = << >> THEN 0
  ELSE ParseDigits(SubSeq(t, 1, Len(t) - 1)) * 10 + DigitValue(t[Len(t)])

(* cleanenv reads an int field: the env-default when the variable is       *)
(* unset, the parsed text when it is a number, an error otherwise.         *)
ReadInt(v, default) ==
  IF ~v.set THEN [val |-> default, err |-> NoErr]
  ELSE IF v.text # << >> /\ \A i \in 1..Len(v.text) : v.text[i] \in Digits
    THEN [val |-> ParseDigits(v.text), err |-> NoErr]
  ELSE [val |-> default, err |-> "config: parse"]

(* config.Load: the configuration read from the environment, or an error.  *)
(* Nothing compares one timeout with another.                              *)
Load(env) ==
  LET agent == ReadInt(env.AGENT_TIMEOUT, DefaultAgentTimeoutSec)
      read == ReadInt(env.GATEWAY_READ_TIMEOUT_SEC, DefaultReadTimeoutSec)
      write == ReadInt(env.GATEWAY_WRITE_TIMEOUT_SEC, DefaultWriteTimeoutSec)
      idle == ReadInt(env.GATEWAY_IDLE_TIMEOUT_SEC, DefaultIdleTimeoutSec)
      errs == {r.err : r \in {agent, read, write, idle}} \ {NoErr}
  IN [ cfg |-> [DefaultConfig EXCEPT !.AgentTimeoutSec = agent.val,
                                     !.ReadTimeoutSec = read.val,
                                     !.WriteTimeoutSec = write.val,
                                     !.IdleTimeoutSec = idle.val],
       err |-> IF errs = {} THEN NoErr ELSE CHOOSE e \in errs : TRUE ]

----------------------------------------------------------------------------
(* The chat handler *)

MaxRequestBodyBytes == 512 * 1024

StatusMethodNotAllowed == 405
StatusRequestEntityTooLarge == 413
StatusBadRequest == 400

(* Texts the handler looks into are sequences of characters *)
Whitespace == {" ", "\t", "\n", "\r"}

RECURSIVE TrimLeft(_)
TrimLeft(s) == IF s # << >> /\ Head(s) \in Whitespace THEN TrimLeft(Tail(s)) ELSE s

RECURSIVE TrimRight(_)
TrimRight(s) ==
  IF s # << >> /\ s[Len(s)] \in Whitespace THEN TrimRight(SubSeq(s, 1, Len(s) - 1)) ELSE s

TrimSpace(s) == TrimRight(TrimLeft(s))

UpperCase ==
  << "A", "B", "C", "D", "E", "F", "G", "H", "I", "J", "K", "L", "M",
     "N", "O", "P", "Q", "R", "S", "T", "U", "V", "W", "X", "Y", "Z" >>

LowerCase ==
  << "a", "b", "c", "d", "e", "f", "g", "h", "i", "j", "k", "l", "m",
     "n", "o", "p", "q", "r", "s", "t", "u", "v", "w", "x", "y", "z" >>

ToLower(s) ==
  [ i \in 1..Len(s) |->
      IF \E j \in 1..Len(UpperCase) : UpperCase[j] = s[i]
        THEN LowerCase[CHOOSE j \in 1..Len(UpperCase) : UpperCase[j] = s[i]]
        ELSE s[i] ]

(* The modalidad is compared as it was sent *)
ModalidadToAgentAsSent(modalidad) ==
  LET m == modalidad
  IN CASE m = <<"c", "i", "t", "a", "s">> -> "cita"
       [] m = <<"v", "e", "n", "t", "a", "s">> -> "venta"
       [] m = <<"r", "e", "s", "e", "r", "v", "a", "s">> -> "reserva"
       [] m = <<"c", "i", "t", "a", "s", " ", "y", " ", "v", "e", "n", "t", "a", "s">>
            -> "citas_ventas"
       [] OTHER -> "cita"

ModalidadToAgent(modalidad) ==
  LET m == ToLower(TrimSpace(modalidad))
  IN CASE m = <<"c", "i", "t", "a", "s">> -> "cita"
       [] m = <<"v", "e", "n", "t", "a", "s">> -> "venta"
       [] m = <<"r", "e", "s", "e", "r", "v", "a", "s">> -> "reserva"
       [] m = <<"c", "i", "t", "a", "s", " ", "y", " ", "v", "e", "n", "t", "a", "s">>
            -> "citas_ventas"
       [] OTHER -> "cita"

(* A request to the chat endpoint: its method, the bytes of its body, the  *)
(* byte at which the decoder has its JSON value or gives up on it, whether *)
(* the value decodes into a ChatRequest, and the decoded fields.           *)
NoRequest ==
  [method |-> "", size |-> 0, jsonEnd |-> 0, wellFormed |-> FALSE, message |-> << >>,
   session |-> 0, empresa |-> 0, modalidad |-> << >>]

(* The request of a caller that names the agent itself *)
DefaultRequest ==
  [method |-> "POST", size |-> 1, jsonEnd |-> 1, wellFormed |-> TRUE, message |-> <<"h", "i">>,
   session |-> 0, empresa |-> 1, modalidad |-> << >>]

(* What the handler writes: status, error detail, and the ChatResponse *)
NoOut ==
  [status |-> 0, detail |-> "", reply |-> "", session_id |-> 0, agent_used |-> Nil,
   url |-> Nil, agents |-> [a \in Agents |-> ""]]

Detail(status, detail) == [NoOut EXCEPT !.status = status, !.detail = detail]

(* A negative session_id passes *)
RejectionAnySession(req) ==
  IF req.method # "POST" THEN Detail(StatusMethodNotAllowed, "method not allowed")
  ELSE IF req.jsonEnd > MaxRequestBodyBytes
    THEN Detail(StatusRequestEntityTooLarge, "Body demasiado grande")
  ELSE IF ~req.wellFormed THEN Detail(StatusBadRequest, "JSON invalido")
  ELSE IF TrimSpace(req.message) = << >> THEN Detail(StatusBadRequest, "message")
  ELSE IF req.empresa <= 0 THEN Detail(StatusBadRequest, "config.id_empresa")
  ELSE NoOut

(* The handler's checks: the answer to a request it rejects, NoOut for one *)
(* it lets through.                                                        *)
Rejection(req) ==
  IF req.method # "POST" THEN Detail(StatusMethodNotAllowed, "method not allowed")
  ELSE IF req.jsonEnd > MaxRequestBodyBytes
    THEN Detail(StatusRequestEntityTooLarge, "Body demasiado grande")
  ELSE IF ~req.wellFormed THEN Detail(StatusBadRequest, "JSON invalido")
  ELSE IF TrimSpace(req.message) = << >> THEN Detail(StatusBadRequest, "message")
  ELSE IF req.session < 0 THEN Detail(StatusBadRequest, "session_id")
  ELSE IF req.empresa <= 0 THEN Detail(StatusBadRequest, "config.id_empresa")
  ELSE NoOut

Fallback == "No pude conectar con el agente. Intenta de nuevo en un momento."

(* A failed invocation is answered with a gateway error *)
RespondBadGateway(agent, req, ret) ==
  IF ret.err # NoErr
    THEN [status |-> 502, detail |-> ret.err, reply |-> "", session_id |-> req.session,
          agent_used |-> agent, url |-> Nil,
          agents |-> NoOut.agents]
    ELSE [status |-> StatusOK, detail |-> "", reply |-> ret.Reply,
          session_id |-> req.session, agent_used |-> agent, url |-> ret.URL,
          agents |-> NoOut.agents]

(* The handler's answer to a request whose invocation has returned *)
Respond(agent, req, ret) ==
  IF ret.err # NoErr
    THEN [status |-> StatusOK, detail |-> "", reply |-> Fallback,
          session_id |-> req.session, agent_used |-> agent, url |-> Nil,
          agents |-> NoOut.agents]
    ELSE [status |-> StatusOK, detail |-> "", reply |-> ret.Reply,
          session_id |-> req.session, agent_used |-> agent, url |-> ret.URL,
          agents |-> NoOut.agents]

(* Every invocation that has returned is recorded as ok *)
ObservedAsOk(agent, ret) ==
  << [name |-> "gateway_requests_total", agent |-> agent, status |-> "ok"],
     [name |-> "gateway_request_duration_seconds", agent |-> agent, status |-> ""] >>

(* The metrics the handler records for an invocation that has returned *)
Observed(agent, ret) ==
  << [name |-> "gateway_requests_total", agent |-> agent,
      status |-> IF ret.err # NoErr THEN "error" ELSE "ok"],
     [name |-> "gateway_request_duration_seconds", agent |-> agent, status |-> ""] >>

----------------------------------------------------------------------------
(* State *)

(* The clock is sampled four times per evaluation window *)
Step == Interval \div 4

NoCall ==
  [agent |-> "", start |-> 0, gen |-> 0, admit |-> "", ctx |-> WithTimeout(FALSE, 0, 0),
   req |-> NoRequest]

(* last: the most recent return of InvokeAgent, as its caller saw it: the  *)
(* agent, the breaker state the call was admitted in ("" when refused),    *)
(* how often doHTTP ran for it, doHTTP's result, the result handed to the  *)
(* caller, the part of the response body left unread, the response doHTTP  *)
(* worked on, and around it the request the handler served, the answer it  *)
(* wrote and the metrics it recorded.                                      *)
NoLast ==
  [agent |-> "", admit |-> "", runs |-> 0, res |-> EmptyResult, ret |-> EmptyResult,
   unread |-> 0, resp |-> NoResponse, req |-> NoRequest, out |-> NoOut,
   metrics |-> << >>, released |-> FALSE]

(* hist: per agent, the run of failed returns since the last successful   *)
(* one (fails), the generation all of them were admitted and recorded in  *)
(* (win; 0 when there is none or they span several generations) and the   *)
(* time the breaker last opened.                                          *)
NoHist == [fails |-> 0, win |-> 0, openedAt |-> ZeroTime]

InFlight == BagToSet(calls)

Init ==
  /\ now = 0
  /\ cfg = DefaultConfig
  /\ cbs = [a \in Agents |-> NewCircuitBreaker(a)]
  /\ calls = EmptyBag
  /\ last = NoLast
  /\ hist = [a \in Agents |-> NoHist]

(* Time of the transition into Open of a breaker that is Open, as the log  *)
(* would show it.                                                          *)
OpenedAt(old, new, h) ==
  IF new.state # StateOpen THEN ZeroTime
  ELSE IF new.generation # old.generation THEN now
  ELSE h.openedAt

(* One breaker for every agent *)
cbOfShared(agent) == "cita"

(* The breaker that serves an agent: inv.cbs[agent] *)
cbOf(agent) == agent

(* Every invocation works on a breaker made for it *)
cbForFresh(k) == NewCircuitBreaker(k)

(* The breaker instance an invocation works on: cb := inv.cbs[agent] *)
cbFor(k) == cbs[k]

(* ServeHTTP from the derivation of the call's context, and InvokeAgent    *)
(* up to the point where the request is on the wire (or the call has       *)
(* been refused).                                                          *)
Handle(agent, req) ==
  /\ BagCardinality(calls) < MaxInFlight
  /\ LET agentCtx == WithTimeout(FALSE, now, AgentTimeout)
         call == [NoCall EXCEPT !.agent = agent, !.start = now, !.ctx = agentCtx,
                                !.req = req]
         refused(c, e) ==
           /\ last' = [agent |-> c.agent, admit |-> "", runs |-> 0,
                       res |-> EmptyResult, ret |-> Failure(e), unread |-> 0,
                       resp |-> NoResponse, req |-> req,
                       out |-> Respond(c.agent, req, Failure(e)),
                       metrics |-> Observed(c.agent, Failure(e)),
                       released |-> cancel(c.ctx, now).released]
           /\ calls' = calls
     IN IF ~AgentEnabled(agent) THEN refused(call, ErrDisabled) /\ UNCHANGED <<cbs, hist>>
        ELSE IF AgentURL(agent) = "" THEN refused(call, ErrNoURL) /\ UNCHANGED <<cbs, hist>>
        ELSE IF cbOf(agent) \notin DOMAIN cbs
          THEN refused(call, ErrUnknown) /\ UNCHANGED <<cbs, hist>>
        ELSE LET k == cbOf(agent)
                 r == beforeRequest(cbFor(k), now)
                 c == [call EXCEPT !.gen = r.generation]
             IN /\ currentState(cbs[k], now).counts.Requests < MaxCalls
                /\ cbs' = [cbs EXCEPT ![k] = r.cb]
                /\ hist' = [hist EXCEPT ![k].openedAt = OpenedAt(cbs[k], r.cb, hist[k])]
                /\ IF r.err # NoErr
                     THEN refused(c, r.err)
                     ELSE /\ calls' = calls (+) SetToBag({[c EXCEPT !.admit = r.cb.state]})
                          /\ last' = last
  /\ UNCHANGED <<now, cfg>>

(* InvokeAgent is called for a routing key *)
Begin(agent) == Handle(agent, DefaultRequest)

(* The handler serves a request: it answers one that fails its checks, and *)
(* routes the others to InvokeAgent under the per-call deadline.           *)
ServeHTTP(req) ==
  IF Rejection(req) # NoOut
    THEN /\ last' = [NoLast EXCEPT !.req = req, !.out = Rejection(req)]
         /\ UNCHANGED <<now, cfg, cbs, calls, hist>>
    ELSE Handle(ModalidadToAgent(req.modalidad), req)

StatusServiceUnavailable == 503

(* The health handler's verdict on one agent, up being the agents whose    *)
(* health endpoint answers 2xx within the probe's timeout.                 *)
checkAgent(n, up) ==
  IF ~AgentEnabled(n) THEN "disabled"
  ELSE IF AgentHealthURL(n) = "" THEN "no_url"
  ELSE IF n \in up THEN "ok"
  ELSE "unreachable"

checkAgents(up) == [n \in Agents |-> checkAgent(n, up)]

(* An agent that does not answer its probe counts as a failed call *)
HealthCheckThroughBreaker(up) ==
  LET results == checkAgents(up)
      allOK == \A n \in Agents : results[n] \in {"ok", "disabled"}
  IN /\ last' = [NoLast EXCEPT !.out = [NoOut EXCEPT
                    !.status = IF allOK THEN StatusOK ELSE StatusServiceUnavailable,
                    !.detail = IF allOK THEN "ok" ELSE "degraded",
                    !.agents = results]]
     /\ cbs' = [n \in Agents |->
                  IF results[n] = "unreachable"
                    THEN afterRequest(beforeRequest(cbs[n], now).cb,
                                      beforeRequest(cbs[n], now).generation, FALSE, now)
                    ELSE cbs[n]]
     /\ UNCHANGED <<now, cfg, calls, hist>>

(* GET /health: the handler probes the health URL of every enabled agent   *)
(* and answers 200 when none is unreachable or without URL, 503 otherwise. *)
HealthCheck(up) ==
  LET results == checkAgents(up)
      allOK == \A n \in Agents : results[n] \in {"ok", "disabled"}
  IN /\ last' = [NoLast EXCEPT !.out = [NoOut EXCEPT
                    !.status = IF allOK THEN StatusOK ELSE StatusServiceUnavailable,
                    !.detail = IF allOK THEN "ok" ELSE "degraded",
                    !.agents = results]]
     /\ UNCHANGED <<now, cfg, cbs, calls, hist>>

(* The caller goes away while its request is in flight *)
CallerCancel(c) ==
  /\ BagIn(c, calls)
  /\ ~ctxDone(c.ctx, now)
  /\ calls' = (calls (-) SetToBag({c})) (+) SetToBag({[c EXCEPT !.ctx.callerDone = TRUE]})
  /\ UNCHANGED <<now, cfg, cbs, last, hist>>

HistAfter(h, old, new, gen, success) ==
  LET cur == currentState(old, now)
      inWin == gen = cur.generation
  IN [ fails |-> IF success THEN 0 ELSE h.fails + 1,
       win |-> IF success THEN 0
               ELSE IF inWin /\ (h.fails = 0 \/ h.win = gen) THEN gen
               ELSE 0,
       openedAt |-> OpenedAt(old, new, h) ]

(* How often Execute runs the request function for an admitted call *)
Runs == 1

(* client.Do returns, doHTTP finishes, Execute records the outcome and     *)
(* InvokeAgent returns to the handler.                                     *)
Complete(c, beh) ==
  /\ BagIn(c, calls)
  /\ LET k == cbOf(c.agent)
         res == doHTTP(c.ctx, now, beh)
         nb == afterRequest(cbFor(k), c.gen, res.err = NoErr, now)
     IN /\ cbs' = [cbs EXCEPT ![k] = nb]
        /\ hist' = [hist EXCEPT ![k] = HistAfter(@, cbs[k], nb, c.gen, res.err = NoErr)]
        /\ calls' = calls (-) SetToBag({c})
        /\ last' = [agent |-> c.agent, admit |-> c.admit, runs |-> Runs,
                    res |-> res, ret |-> InvokeReturn(res),
                    unread |-> bodyUnread(c.ctx, now, beh),
                    resp |-> received(c.ctx, now, beh), req |-> c.req,
                    out |-> Respond(c.agent, c.req, InvokeReturn(res)),
                    metrics |-> Observed(c.agent, InvokeReturn(res)),
                    released |-> cancel(c.ctx, now).released]
  /\ UNCHANGED <<now, cfg>>

(* Time passes, step seconds at a time, up to ticks steps.  A call returns *)
(* no later than the moment its context is done.                           *)
Tick(step, ticks) ==
  /\ \A c \in InFlight : ~c.ctx.callerDone /\ c.ctx.deadline >= now + step
  /\ now + step <= ticks * step
  /\ now' = now + step
  /\ UNCHANGED <<cfg, cbs, calls, last, hist>>

NetErr == [kind |-> "neterr", status |-> 0, decodes |-> FALSE, reply |-> "", url |-> "",
           body |-> 0, value |-> 0]

Paid == [kind |-> "resp", status |-> StatusOK, decodes |-> TRUE, reply |-> "pague",
         url |-> "http://pago", body |-> 1, value |-> 1]

(* client.Do gives up on a backend that has not answered: the call's       *)
(* context is done.                                                        *)
Abort(c) == ctxDone(c.ctx, now) /\ Complete(c, Hang)

(* The shared transport of NewInvoker sets MaxIdleConns, MaxIdleConnsPerHost *)
(* and IdleConnTimeout.  MaxConnsPerHost is left at its zero value, which   *)
(* for http.Transport means no limit.                                       *)
MaxIdleConnsPerHost == 10
MaxConnsPerHost == 0

(* The connections to an agent's host that carry a request: each call in   *)
(* flight holds one from the moment client.Do sends until it returns.      *)
ActiveConns(a) ==
  LET cur == {c \in InFlight : c.agent = a}
      Sum[S \in SUBSET cur] ==
        IF S = {} THEN 0
        ELSE LET x == CHOOSE y \in S : TRUE IN CopiesIn(x, calls) + Sum[S \ {x}]
  IN Sum[cur]

(* One backend under load, the clock sampled every Step seconds *)
Next ==
  \/ Begin("cita")
  \/ \E c \in InFlight : CallerCancel(c)
  \/ \E c \in InFlight, beh \in Behaviours : Complete(c, beh)
  \/ Tick(Step, MaxTicks)

Spec == Init /\ [][Next]_vars

(* Two backends under load at once; the clock is sampled once, after every *)
(* window and cool-down that began at the start has run out.               *)
NextPair ==
  \/ \E a \in {"cita", "venta"} : Begin(a)
  \/ \E c \in InFlight, beh \in {NetErr, Paid} : Complete(c, beh)
  \/ Tick(Interval + Step, 1)

SpecPair == Init /\ [][NextPair]_vars

(* A backend that answers 201 Created with a well-formed body, and one     *)
(* whose well-formed body has no url field.                                *)
Created == [kind |-> "resp", status |-> 201, decodes |-> TRUE, reply |-> "hola", url |-> "",
            body |-> 1, value |-> 1]

Bare == [kind |-> "resp", status |-> StatusOK, decodes |-> TRUE, reply |-> "hola",
         url |-> Nil, body |-> 1, value |-> 1]

WireBehaviours == Behaviours \cup {Created, Bare}

(* One backend and everything it can put on the wire *)
NextWire ==
  \/ Begin("cita")
  \/ \E c \in InFlight, beh \in WireBehaviours : Complete(c, beh)
  \/ Tick(AgentTimeout, 3)

SpecWire == Init /\ [][NextWire]_vars

(* The gateway with the cita agent alone switched on *)
ChatDeployment == [DefaultConfig EXCEPT !.Enabled = [a \in Agents |-> a = "cita"]]

InitChat ==
  /\ now = 0
  /\ cfg = ChatDeployment
  /\ cbs = [a \in Agents |-> NewCircuitBreaker(a)]
  /\ calls = EmptyBag
  /\ last = NoLast
  /\ hist = [a \in Agents |-> NoHist]

(* The modalidad texts n8n sends *)
Modalidades ==
  { <<"C", "i", "t", "a", "s">>,
    <<" ", "V", "E", "N", "T", "A", "S", " ">>,
    <<"R", "e", "s", "e", "r", "v", "a", "s", "\n">>,
    <<"C", "i", "t", "a", "s", " ", "y", " ", "V", "e", "n", "t", "a", "s">>,
    <<"V", "e", "n", "t", "a">> }

(* A request that passes the handler's checks *)
GoodRequest ==
  [DefaultRequest EXCEPT !.session = 7, !.modalidad = <<"C", "i", "t", "a", "s">>]

(* The requests that reach the chat endpoint: good ones with every         *)
(* modalidad, one with bytes after its JSON value that go over the limit,  *)
(* and one for each check that rejects.                                    *)
Requests ==
  { [GoodRequest EXCEPT !.modalidad = m] : m \in Modalidades }
  \cup { [GoodRequest EXCEPT !.size = MaxRequestBodyBytes + 1,
                             !.modalidad = <<"v", "e", "n", "t", "a", "s">>],
         [GoodRequest EXCEPT !.method = "GET"],
         [GoodRequest EXCEPT !.size = MaxRequestBodyBytes + 1,
                             !.jsonEnd = MaxRequestBodyBytes + 1],
         [GoodRequest EXCEPT !.wellFormed = FALSE],
         [GoodRequest EXCEPT !.message = << >>],
         [GoodRequest EXCEPT !.message = <<" ", "\t">>],
         [GoodRequest EXCEPT !.session = -1],
         [GoodRequest EXCEPT !.empresa = 0],
         [GoodRequest EXCEPT !.empresa = -1] }

NextChat ==
  \/ \E req \in Requests : ServeHTTP(req)
  \/ \E c \in InFlight, beh \in Behaviours : Complete(c, beh)
  \/ \E up \in {{}, {"cita"}} : HealthCheck(up)
  \/ Tick(AgentTimeout, 3)

SpecChat == InitChat /\ [][NextChat]_vars

(* Deployments that give every agent a URL of its own kind (with a query,  *)
(* over https, bare or missing, without a scheme) and switch agents off.   *)
RegistryURLs(r) ==
  [a \in Agents |->
     CASE a = "venta" -> "http://venta:8001/api/chat?v=1"
       [] a = "cita" -> "https://cita.internal/chat"
       [] a = "reserva" -> r
       [] a = "citas_ventas" -> "://ambos/api/chat"]

RegistryDeployments ==
  { [DefaultConfig EXCEPT !.URL = RegistryURLs(d.reserva),
                          !.Enabled = [a \in Agents |-> a \in d.on]] :
      d \in { [reserva |-> "http://reserva:8003", on |-> {"cita"}],
              [reserva |-> "", on |-> {"cita", "reserva"}],
              [reserva |-> "http://reserva:8003", on |-> {"cita", "venta", "citas_ventas"}] } }

InitRegistry ==
  /\ now = 0
  /\ cfg \in RegistryDeployments
  /\ cbs = [a \in Agents |-> NewCircuitBreaker(a)]
  /\ calls = EmptyBag
  /\ last = NoLast
  /\ hist = [a \in Agents |-> NoHist]

(* The keys the registry is asked about through InvokeAgent *)
RegistryKeys == {"cita", "reserva", "soporte", "CITA"}

NextRegistry ==
  \/ \E k \in RegistryKeys : Begin(k)
  \/ \E c \in InFlight, beh \in {NetErr, Paid} : Complete(c, beh)
  \/ \E up \in {{}, {"cita", "venta"}} : HealthCheck(up)
  \/ Tick(Interval + Step, 1)

SpecRegistry == InitRegistry /\ [][NextRegistry]_vars

(* A deployment with AGENT_TIMEOUT=90: a call may outlast the window and   *)
(* the cool-down of the breaker that admitted it.                          *)
SlowDeployment == [DefaultConfig EXCEPT !.AgentTimeoutSec = 90]

InitSlow ==
  /\ now = 0
  /\ cfg = SlowDeployment
  /\ cbs = [a \in Agents |-> NewCircuitBreaker(a)]
  /\ calls = EmptyBag
  /\ last = NoLast
  /\ hist = [a \in Agents |-> NoHist]

(* One backend with slow calls; the clock is sampled after each window and *)
(* cool-down that began at the sample before has run out.                  *)
NextSlow ==
  \/ Begin("cita")
  \/ \E c \in InFlight, beh \in {NetErr, Paid} : Complete(c, beh)
  \/ Tick(Interval + Step, 2)

SpecSlow == InitSlow /\ [][NextSlow]_vars

(* One backend that fails or answers at once, with the clock sampled four  *)
(* times per window and cool-down.                                         *)
NextFine ==
  \/ Begin("cita")
  \/ \E c \in InFlight, beh \in {NetErr, Paid} : Complete(c, beh)
  \/ Tick(Step, MaxTicks)

SpecFine == Init /\ [][NextFine]_vars

(* One backend that never answers: a call ends only with its context *)
NextHang ==
  \/ Begin("cita")
  \/ \E c \in InFlight : CallerCancel(c)
  \/ \E c \in InFlight : Abort(c)
  \/ Tick(Step, MaxTicks)

SpecHang == Init /\ [][NextHang]_vars

(* Deployments that switch an agent off: AGENT_VENTA_ENABLED=false, or an  *)
(* empty AGENT_VENTA_URL.                                                  *)
Deployments ==
  { [DefaultConfig EXCEPT !.Enabled["venta"] = FALSE],
    [DefaultConfig EXCEPT !.URL["venta"] = ""] }

InitKeys ==
  /\ now = 0
  /\ cfg \in Deployments
  /\ cbs = [a \in Agents |-> NewCircuitBreaker(a)]
  /\ calls = EmptyBag
  /\ last = NoLast
  /\ hist = [a \in Agents |-> NoHist]

(* The routing keys InvokeAgent is called with: a working agent, the agent *)
(* the deployment has switched off, and a key that names no agent.         *)
Keys == {"cita", "venta", "soporte"}

NextKeys ==
  \/ \E k \in Keys : Begin(k)
  \/ \E c \in InFlight, beh \in {NetErr, Paid} : Complete(c, beh)
  \/ Tick(Interval + Step, 1)

SpecKeys == InitKeys /\ [][NextKeys]_vars

(* The environments the gateway is started in *)
Envs ==
  [ AGENT_TIMEOUT : {Unset, EnvText(<<"1", "5">>), EnvText(<<"4", "5">>), EnvText(<<"3", "0", "s">>)},
    GATEWAY_READ_TIMEOUT_SEC : {Unset, EnvText(<<"4", "0">>), EnvText(<<"2", "0">>)},
    GATEWAY_WRITE_TIMEOUT_SEC : {Unset, EnvText(<<"3", "5">>), EnvText(<<"2", "0">>)},
    GATEWAY_IDLE_TIMEOUT_SEC : {Unset, EnvText(<<"0">>), EnvText(<<"9", "0">>)} ]

(* main: the configuration is loaded; on an error the process exits, else  *)
(* the invoker is built and the server starts.                             *)
InitLoad ==
  /\ \E env \in Envs : Load(env).err = NoErr /\ cfg = Load(env).cfg
  /\ now = 0
  /\ cbs = [a \in Agents |-> NewCircuitBreaker(a)]
  /\ calls = EmptyBag
  /\ last = NoLast
  /\ hist = [a \in Agents |-> NoHist]

(* The gateway serves one silent backend for the length of one agent       *)
(* timeout.                                                                *)
NextLoad ==
  \/ Begin("cita")
  \/ \E c \in InFlight : Abort(c)
  \/ Tick(AgentTimeout, 1)

SpecLoad == InitLoad /\ [][NextLoad]_vars

(* One backend that answers, fails or never answers.  Requests stop        *)
(* arriving one agent timeout before the clock of the model ends; the      *)
(* clock runs, and client.Do returns once the context of its request is    *)
(* done.                                                                   *)
NextLive ==
  \/ now + AgentTimeout <= MaxTicks * Step /\ Begin("cita")
  \/ \E c \in InFlight : CallerCancel(c)
  \/ \E c \in InFlight, beh \in {NetErr, Paid} : Complete(c, beh)
  \/ \E c \in InFlight : Abort(c)
  \/ Tick(Step, MaxTicks)

SpecLive ==
  /\ Init /\ [][NextLive]_vars
  /\ WF_vars(\E c \in InFlight : Abort(c))
  /\ WF_vars(Tick(Step, MaxTicks))

----------------------------------------------------------------------------
(* What a step did, read from the state before and after it *)

(* A call of agent a was admitted by its breaker and is now on the wire *)
Admits(a) ==
  /\ BagCardinality(calls') > BagCardinality(calls)
  /\ \E c \in BagToSet(calls') : c.agent = a /\ CopiesIn(c, calls') > CopiesIn(c, calls)

(* The in-flight call c returned to its caller *)
Returns(c) == BagIn(c, calls) /\ calls' = calls (-) SetToBag({c})

(* InvokeAgent refused a call of agent a without running doHTTP *)
Refuses(a) == calls' = calls /\ last' # last /\ last'.agent = a

(* The in-flight calls of agent a that the breaker admitted in its current *)
(* generation.                                                             *)
InFlightNow(a) ==
  LET cur == {c \in InFlight : c.agent = a /\ c.gen = cbs[a].generation}
      Sum[S \in SUBSET cur] ==
        IF S = {} THEN 0
        ELSE LET x == CHOOSE y \in S : TRUE IN CopiesIn(x, calls) + Sum[S \ {x}]
  IN Sum[cur]

CoolingDown(a) == cbs[a].state = StateOpen /\ now <= hist[a].openedAt + Timeout

----------------------------------------------------------------------------
C2_OpenRejects ==
  [][\A a \in Agents :
       CoolingDown(a)
       => /\ ~Admits(a)
          /\ Refuses(a) => /\ last'.ret.err = ErrOpenState
                           /\ last'.runs = 0
                           /\ cbs'[a] = cbs[a]]_vars

C2_Witness ==
  /\ CoolingDown("cita")
  /\ now > hist["cita"].openedAt
  /\ last.agent = "cita" /\ last.ret.err = ErrOpenState /\ last.runs = 0

(* C3, as stated: once the cool-down has elapsed the next invocation is    *)
(* admitted as a Half-Open probe, and when that one probe succeeds the     *)
(* breaker is Closed with its counters at zero.                            *)
C3_AsStated ==
  [][\A a \in Agents :
       /\ cbs[a].state = StateOpen /\ now > hist[a].openedAt + Timeout => ~Refuses(a)
       /\ \A c \in InFlight :
            Returns(c) /\ c.agent = a /\ c.admit = StateHalfOpen
              /\ cbs[a].state = StateHalfOpen /\ last'.ret.err = NoErr
            => cbs'[a].state = StateClosed /\ cbs'[a].counts = ZeroCounts]_vars

C5_ProbeLimit ==
  [][\A a \in Agents :
       /\ cbs'[a].state = StateHalfOpen
          => cbs'[a].counts.Requests <= MaxRequests
       /\ cbs[a].state = StateHalfOpen /\ cbs[a].counts.Requests >= MaxRequests
          => /\ ~Admits(a)
             /\ Refuses(a) => last'.ret.err = ErrTooManyRequests /\ last'.runs = 0]_vars

(* The fourth invocation of a Half-Open period has been refused *)
C5_Witness ==
  /\ cbs["cita"].state = StateHalfOpen
  /\ cbs["cita"].counts.Requests = MaxRequests
  /\ last.agent = "cita" /\ last.ret.err = ErrTooManyRequests /\ last.runs = 0

C7_Independent ==
  [][\A a \in Agents :
       cbs'[a] # cbs[a] \/ hist'[a] # hist[a]
       => \/ Admits(a)
          \/ \E c \in InFlight : Returns(c) /\ c.agent = a]_vars

(* cita has tripped and recovered; venta, failing, is Closed with a call   *)
(* on the wire.                                                            *)
C7_Witness ==
  /\ Len(cbs["cita"].log) = 3 /\ cbs["cita"].state = StateClosed
  /\ cbs["venta"].state = StateClosed /\ cbs["venta"].log = << >>
  /\ cbs["venta"].counts.TotalFailures >= 1
  /\ \E c \in InFlight : c.agent = "venta"

(* The state changes a breaker has reported follow one another: each       *)
(* starts in the state the one before it ended in.                         *)
LogChained(log) ==
  /\ \A i \in 1..Len(log) : log[i].from # log[i].to
  /\ Len(log) > 0 => log[1].from = StateClosed
  /\ \A i \in 1..(Len(log) - 1) : log[i + 1].from = log[i].to

(* C8: with calls of one backend completing concurrently, every call the   *)
(* breaker admitted in its current generation is either still in flight or *)
(* counted exactly once as a success or a failure, the consecutive-failure *)
(* counter is not behind the failures recorded in a row in the running     *)
(* window, and the reported transitions form one chain: a trip is one      *)
(* Closed->Open transition, never two.                                     *)
C8_Atomic ==
  \A a \in Agents :
    /\ cbs[a].counts.Requests =
         cbs[a].counts.TotalSuccesses + cbs[a].counts.TotalFailures + InFlightNow(a)
    /\ hist[a].win = cbs[a].generation => cbs[a].counts.ConsecutiveFailures >= hist[a].fails
    /\ LogChained(cbs[a].log)
    /\ cbs[a].state = IF cbs[a].log = << >> THEN StateClosed
                      ELSE cbs[a].log[Len(cbs[a].log)].to

(* A sixth failure of the tripping window arrived after the trip: still    *)
(* one transition.                                                         *)
C8_Witness ==
  /\ hist["cita"].fails > Threshold
  /\ cbs["cita"].state = StateOpen
  /\ Len(cbs["cita"].log) = 1

(* C9: for an invocation the breaker admitted, doHTTP ran exactly once and *)
(* InvokeAgent returned doHTTP's reply, url and error unchanged; for a     *)
(* refused one doHTTP did not run.                                         *)
C9_PassThrough ==
  /\ last.admit # "" => last.runs = 1 /\ last.ret = last.res
  /\ last.admit = "" => last.runs = 0 /\ last.res = EmptyResult

(* A reply with a url came back through an admitted call *)
C9_Witness ==
  /\ last.admit # "" /\ last.runs = 1
  /\ last.ret.err = NoErr /\ last.ret.URL = "http://pago" /\ last.ret.Reply = "pague"

(* C10: the context of a call in flight is done at the earlier of the      *)
(* caller's cancellation and call start + agent timeout; a call never      *)
(* stays in flight past the moment its context is done.                    *)
C10_DerivedDeadline ==
  [][\A c \in InFlight :
       /\ c.ctx.deadline = c.start + AgentTimeout
       /\ c.start <= now /\ now <= c.ctx.deadline
       /\ ctxDone(c.ctx, now) <=> (c.ctx.callerDone \/ now >= c.start + AgentTimeout)
       /\ ctxDone(c.ctx, now)
          => /\ now' = now
             /\ Returns(c) => last'.res.err \in {ErrHTTPCanceled, ErrHTTPDeadline}]_vars

(* A call ran into the deadline of its derived context *)
C10_Witness ==
  /\ last.res.err = ErrHTTPDeadline
  /\ last.admit # ""

(* The errors of a call that ended with its context *)
CtxErrs == {ErrHTTPCanceled, ErrHTTPDeadline}

C13_EveryCallReturns ==
  /\ [](\A c \in InFlight : now <= c.ctx.deadline)
  /\ (calls # EmptyBag) ~> (calls = EmptyBag)

(* A call that nobody cancelled and the backend never answered has been    *)
(* ended by its deadline, and nothing is in flight.                        *)
C13_Witness ==
  /\ last.res.err = ErrHTTPDeadline /\ last.runs = 1
  /\ calls = EmptyBag
  /\ now >= AgentTimeout

(* C14, as stated: InvokeAgent called with a key that names no registered  *)
(* backend fails with the unknown-agent error, not with the error of a     *)
(* disabled backend, and the call is sent to no backend.                   *)
C14_AsStated ==
  [][\A k \in Keys \ Agents :
       /\ ~Admits(k)
       /\ Refuses(k) => last'.ret.err = ErrUnknown /\ last'.ret.err # ErrDisabled]_vars

(* C15: InvokeAgent for a backend that the configuration has disabled      *)
(* returns the disabled failure without Execute and without doHTTP: no     *)
(* call of that backend is admitted or in flight, and its breaker (state,  *)
(* generation, counters, expiry) is what it was before the call.           *)
C15_DisabledUntouched ==
  [][\A a \in Agents :
       ~cfg.Enabled[a]
       => /\ cbs'[a] = cbs[a] /\ hist'[a] = hist[a]
          /\ ~Admits(a)
          /\ \A c \in InFlight : c.agent # a
          /\ Refuses(a) => /\ last'.ret = Failure(ErrDisabled)
                           /\ last'.runs = 0
                           /\ calls' = calls]_vars

(* The disabled backend has been called, later than the start of the run,  *)
(* while the breaker of a working backend is open.                         *)
C15_Witness ==
  /\ ~cfg.Enabled["venta"]
  /\ last.agent = "venta" /\ last.ret.err = ErrDisabled /\ last.runs = 0
  /\ cbs["venta"] = NewCircuitBreaker("venta")
  /\ cbs["cita"].state = StateOpen
  /\ now > 0

(* C16, as stated: a configuration the gateway starts with keeps           *)
(* agent timeout (+ margin) < write timeout < read timeout <= idle         *)
(* timeout; whatever the margin, the agent timeout is below the write      *)
(* timeout.                                                                *)
C16_AsStated ==
  /\ cfg.AgentTimeoutSec < cfg.WriteTimeoutSec
  /\ cfg.WriteTimeoutSec < cfg.ReadTimeoutSec
  /\ cfg.ReadTimeoutSec <= cfg.IdleTimeoutSec

(* C17, as stated: the shared transport has a cap on the connections in    *)
(* use per backend host, and the connections in use to a host never        *)
(* exceed it, however many invocations are in flight.                      *)
C17_AsStated ==
  \A a \in Agents :
    ActiveConns(a) > 0 => MaxConnsPerHost > 0 /\ ActiveConns(a) <= MaxConnsPerHost

(* C18, as stated: against a backend that accepts the connection and never *)
(* sends response headers, a call that its caller did not cancel fails     *)
(* before the agent timeout has run out, with a failure that is not the    *)
(* exceeded deadline of the call.                                          *)
C18_AsStated ==
  [][\A c \in InFlight :
       Returns(c) /\ ~c.ctx.callerDone
       => /\ now < c.start + AgentTimeout
          /\ last'.res.err \notin CtxErrs]_vars

(* C19, as stated: when doHTTP has failed on a response it received (a     *)
(* status other than 200, a body that does not decode), nothing of the     *)
(* response body was left unread when the body was closed.                 *)
C19_AsStated ==
  last.res.err \in {ErrStatus, ErrDecode} => last.unread = 0

(* The failures doHTTP returns *)
FailureKinds == {ErrHTTPDo, ErrHTTPDeadline, ErrHTTPCanceled, ErrStatus, ErrDecode}

(* C20, as stated: a call that returns a decoded 200 response counts as a  *)
(* success, and a call that returns any failure adds exactly one failure   *)
(* to its breaker (or is the failure that opens it).                       *)
C20_AsStated ==
  [][\A c \in InFlight :
       Returns(c) /\ last'.res.err # NoErr
       => \/ cbs'[c.agent].state = StateOpen
             /\ cbs'[c.agent].generation # cbs[c.agent].generation
          \/ cbs'[c.agent].counts.TotalFailures =
               cbs[c.agent].counts.TotalFailures + 1]_vars

(* C20, amended: doHTTP returns without error only for a 200 response      *)
(* whose body decoded, and otherwise one of its failures.  For a call      *)
(* admitted in the running generation of its breaker the breaker counts    *)
(* one success in the first case and one failure in the second (or makes   *)
(* the transition that outcome causes), the same for every kind of         *)
(* failure; a call admitted in a generation that is over counts as         *)
(* neither.                                                                *)
C20_SuccessOnlyDecoded ==
  [][\A c \in InFlight :
       LET a == c.agent
           cur == currentState(cbs[a], now)
           ok == last'.res.err = NoErr
       IN Returns(c)
          => /\ ok => \E beh \in Behaviours :
                        /\ beh.kind = "resp" /\ beh.status = StatusOK /\ beh.decodes
                        /\ last'.res.Reply = beh.reply
             /\ ~ok => last'.res.err \in FailureKinds /\ last'.res.Reply = ""
             /\ IF c.gen # cur.generation THEN cbs'[a] = cur
                ELSE IF ok
                  THEN \/ cbs'[a].state = StateClosed /\ cur.state = StateHalfOpen
                       \/ /\ cbs'[a].state = cur.state
                          /\ cbs'[a].counts.TotalSuccesses = cur.counts.TotalSuccesses + 1
                          /\ cbs'[a].counts.TotalFailures = cur.counts.TotalFailures
                          /\ cbs'[a].counts.ConsecutiveFailures = 0
                ELSE \/ cbs'[a].state = StateOpen /\ cbs'[a].generation = cur.generation + 1
                     \/ /\ cbs'[a].state = cur.state
                        /\ cbs'[a].counts.TotalFailures = cur.counts.TotalFailures + 1
                        /\ cbs'[a].counts.TotalSuccesses = cur.counts.TotalSuccesses
                        /\ cbs'[a].counts.ConsecutiveFailures =
                             cur.counts.ConsecutiveFailures + 1
                        /\ cbs'[a].counts.ConsecutiveSuccesses = 0]_vars

(* A body that did not decode has been counted as the third failure in a   *)
(* row of a Closed breaker that has seen a success.                        *)
C20_Witness ==
  /\ last.res.err = ErrDecode /\ last.admit = StateClosed
  /\ cbs["cita"].state = StateClosed
  /\ cbs["cita"].counts.ConsecutiveFailures = 3
  /\ cbs["cita"].counts.TotalSuccesses >= 1

(* C21, as stated: on a response, doHTTP fails exactly when the status is  *)
(* not 2xx or the body is malformed.                                       *)
C21_AsStated ==
  last.resp # NoResponse
  => (last.res.err # NoErr
        <=> (last.resp.status < 200 \/ last.resp.status > 299 \/ ~last.resp.decodes))

(* C21, amended: on a response, doHTTP fails exactly when the status is    *)
(* not 200 or the body does not decode: a 200 with a well-formed body is   *)
(* a success, any other status, 2xx or not, a bad-status failure.          *)
C21_FailureUnless200 ==
  last.resp # NoResponse
  => /\ last.res.err # NoErr <=> (last.resp.status # StatusOK \/ ~last.resp.decodes)
     /\ last.resp.status # StatusOK => last.res.err = ErrStatus
     /\ last.resp.status = StatusOK /\ ~last.resp.decodes => last.res.err = ErrDecode

(* A 201 with a well-formed body has come back as a failure *)
C21_Witness ==
  /\ last.resp.status = 201 /\ last.resp.decodes
  /\ last.res.err = ErrStatus

(* C22: for a 200 response with a well-formed body, InvokeAgent returns    *)
(* the backend's reply, no error, and as URL nil when the body has an      *)
(* empty url or none, the backend's url otherwise.                         *)
C22_Payload ==
  last.resp.kind = "resp" /\ last.resp.status = StatusOK /\ last.resp.decodes
  => /\ last.ret.err = NoErr
     /\ last.ret.Reply = last.resp.reply
     /\ last.ret.URL = IF last.resp.url \in {"", Nil} THEN Nil ELSE last.resp.url

(* A body with an empty url has come back with a nil URL *)
C22_Witness ==
  /\ last.resp.kind = "resp" /\ last.resp.decodes /\ last.resp.url = ""
  /\ last.resp.status = StatusOK
  /\ last.ret.URL = Nil /\ last.ret.Reply = "hola"

(* The failure each cause of C23's list is reported as: the breaker's two  *)
(* refusals stand for circuit open, a cancelled and a failed exchange for  *)
(* transport error.                                                        *)
KindsByCause ==
  [ disabled |-> {ErrDisabled}, unknown |-> {ErrUnknown},
    open |-> {ErrOpenState, ErrTooManyRequests}, timeout |-> {ErrHTTPDeadline},
    transport |-> {ErrHTTPDo, ErrHTTPCanceled}, status |-> {ErrStatus},
    decode |-> {ErrDecode} ]

(* C23, as stated: a failed invocation carries one of the seven kinds, and *)
(* the kind tells the cause: the disabled kind only for a known backend    *)
(* that is switched off, the unknown kind for a key that names no backend. *)
C23_AsStated ==
  last.ret.err # NoErr
  => /\ \E k \in DOMAIN KindsByCause : last.ret.err \in KindsByCause[k]
     /\ last.ret.err \in KindsByCause.disabled
          => last.agent \in Agents /\ ~cfg.Enabled[last.agent]
     /\ last.agent \notin Agents => last.ret.err \in KindsByCause.unknown

(* C24: a returned InvokeAgent call is a failure with an empty reply and a *)
(* nil URL, or a success whose payload is the reply of a response that the *)
(* backend sent; whatever the backend did, the call has a return value.    *)
C24_PayloadOrFailure ==
  last.agent # ""
  => /\ last.ret.err # NoErr => last.ret.Reply = "" /\ last.ret.URL = Nil
     /\ last.ret.err = NoErr
          => /\ last.resp.kind = "resp" /\ last.runs = 1
             /\ last.ret.Reply = last.resp.reply
     /\ last.ret.err \in {NoErr, ErrOpenState, ErrTooManyRequests, ErrDisabled, ErrNoURL}
                         \cup FailureKinds

(* A malformed body has come back as a failure with nothing else in it *)
C24_Witness ==
  /\ last.resp.kind = "resp" /\ ~last.resp.decodes /\ last.resp.status = StatusOK
  /\ last.ret = Failure(ErrDecode)

(* C25: when the invocation of a request that passed the handler's checks  *)
(* has failed, for whatever reason, the handler has answered 200 with the  *)
(* fallback reply, the request's session_id, the routed agent as           *)
(* agent_used and a null url.                                              *)
C25_Fallback ==
  last.agent # "" /\ last.ret.err # NoErr
  => /\ last.out.status = StatusOK
     /\ last.out.reply = "No pude conectar con el agente. Intenta de nuevo en un momento."
     /\ last.out.session_id = last.req.session
     /\ last.out.agent_used = last.agent
     /\ last.out.url = Nil

(* The fallback has answered a request that the open breaker refused *)
C25_Witness ==
  /\ last.ret.err = ErrOpenState
  /\ last.out.status = StatusOK /\ last.out.reply = Fallback
  /\ last.out.session_id = 7 /\ last.out.agent_used = "cita"

(* The inputs the handler's checks reject *)
Rejected(req) ==
  \/ req.method # "POST"
  \/ req.jsonEnd > MaxRequestBodyBytes
  \/ ~req.wellFormed
  \/ TrimSpace(req.message) = << >>
  \/ req.session < 0
  \/ req.empresa <= 0

RouteTable ==
  { [sent |-> <<"C", "i", "t", "a", "s">>, agent |-> "cita"],
    [sent |-> <<" ", "V", "E", "N", "T", "A", "S", " ">>, agent |-> "venta"],
    [sent |-> <<"R", "e", "s", "e", "r", "v", "a", "s", "\n">>, agent |-> "reserva"],
    [sent |-> <<"C", "i", "t", "a", "s", " ", "y", " ", "V", "e", "n", "t", "a", "s">>,
     agent |-> "citas_ventas"],
    [sent |-> <<"V", "e", "n", "t", "a">>, agent |-> "cita"] }

C28_OneEventPerChange ==
  [][\A a \in Agents :
       IF cbs'[a].state # cbs[a].state
         THEN cbs'[a].log = Append(cbs[a].log,
                [agent |-> a, from |-> cbs[a].state, to |-> cbs'[a].state])
         ELSE cbs'[a].log = cbs[a].log]_vars

(* Both backends have reported their trip, and one its way back to Closed *)
C28_Witness ==
  /\ Len(cbs["cita"].log) = 3 /\ cbs["cita"].log[3].to = StateClosed
  /\ cbs["cita"].log[3].agent = "cita"
  /\ Len(cbs["venta"].log) > 0 /\ cbs["venta"].log[1].agent = "venta"

(* The step served GET /health *)
HealthServed == last' # last /\ last'.out.agents # NoOut.agents

(* C29: a step that serves a health check leaves every breaker as it was   *)
(* (state, generation, counters, expiry, reported changes), and the calls  *)
(* in flight too, whatever the probes found.                               *)
C29_HealthLeavesBreakers ==
  [][HealthServed => cbs' = cbs /\ hist' = hist /\ calls' = calls]_vars

(* The probe found the cita agent down while its breaker was Closed with   *)
(* no failure counted.                                                     *)
C29_Witness ==
  /\ last.out.agents["cita"] = "unreachable"
  /\ last.out.status = StatusServiceUnavailable
  /\ cbs["cita"].state = StateClosed
  /\ cbs["cita"].counts.TotalFailures = 0 /\ cbs["cita"].counts.Requests > 0

(* C30: for each of the four known keys the registry answers with the      *)
(* enabled flag and the URL the configuration holds for that very key, and *)
(* with a health URL of the same scheme and host; for any other key it     *)
(* answers disabled, no URL and no health URL; and no step, with all the   *)
(* lookups it makes, changes the configuration.                            *)
C30_Registry ==
  /\ [](/\ \A a \in Agents : AgentEnabled(a) = cfg.Enabled[a] /\ AgentURL(a) = cfg.URL[a]
        /\ AgentURL("venta") = "http://venta:8001/api/chat?v=1"
        /\ AgentURL("citas_ventas") = "://ambos/api/chat"
        /\ AgentHealthURL("venta") = "http://venta:8001/health"
        /\ AgentHealthURL("cita") = "https://cita.internal/health"
        /\ AgentHealthURL("reserva") \in {"http://reserva:8003/health", ""}
        /\ \A k \in {"soporte", "CITA", "", "citas"} :
             ~AgentEnabled(k) /\ AgentURL(k) = "" /\ AgentHealthURL(k) = "")
  /\ [][cfg' = cfg]_vars

(* A key that names no agent has been answered as disabled, in a           *)
(* deployment where the reserva agent is on and has no URL.                *)
C30_Witness ==
  /\ last.agent = "soporte" /\ last.ret.err = ErrDisabled
  /\ cfg.Enabled["reserva"] /\ ~cfg.Enabled["venta"] /\ cfg.URL["reserva"] = ""
  /\ AgentHealthURL("reserva") = ""

(* cb.log is an extension of log *)
Extends(log, longer) ==
  Len(longer) >= Len(log) /\ SubSeq(longer, 1, Len(log)) = log

(* C31: there is one breaker for each of the four routing keys and for no  *)
(* other key, each under its own name; no step makes, replaces or removes  *)
(* one (a breaker's generation never goes back and what it has reported is *)
(* never lost); and an invocation is admitted by the very breaker that     *)
(* holds the invocations of its key already in flight, so it is counted    *)
(* on top of them.                                                         *)
C31_OneBreakerPerKey ==
  /\ [](DOMAIN cbs = {"venta", "cita", "reserva", "citas_ventas"}
        /\ \A a \in DOMAIN cbs : cbs[a].name = a)
  /\ [][\A a \in Agents :
          /\ cbs'[a].generation >= cbs[a].generation
          /\ Extends(cbs[a].log, cbs'[a].log)
          /\ Admits(a) => cbs'[a].counts.Requests
                            = currentState(cbs[a], now).counts.Requests + 1]_vars

(* Two invocations of the cita agent are in flight on one breaker, which   *)
(* has tripped and recovered before, while the venta agent's is Open.      *)
C31_Witness ==
  /\ InFlightNow("cita") = 2 /\ cbs["cita"].counts.Requests = 2
  /\ Len(cbs["cita"].log) = 3 /\ cbs["cita"].state = StateClosed
  /\ cbs["venta"].state = StateOpen

(* The ways a breaker's state changes *)
Edges ==
  { <<StateClosed, StateOpen>>, <<StateOpen, StateHalfOpen>>,
    <<StateHalfOpen, StateClosed>>, <<StateHalfOpen, StateOpen>> }

(* C32: a step that changes a breaker's state takes it from Closed to      *)
(* Open, from Open to Half-Open, from Half-Open to Closed or from          *)
(* Half-Open to Open, never from Open to Closed and never from Closed to   *)
(* Half-Open; and the changes it has reported are all of these four.       *)
C32_Edges ==
  /\ [][\A a \in Agents :
          cbs'[a].state # cbs[a].state => <<cbs[a].state, cbs'[a].state>> \in Edges]_vars
  /\ [](\A a \in Agents : \A i \in 1..Len(cbs[a].log) :
          <<cbs[a].log[i].from, cbs[a].log[i].to>> \in Edges)

(* A breaker has gone through all four changes: it tripped, a probe failed *)
(* and re-opened it, and the probes of the next Half-Open period closed it *)
C32_Witness ==
  /\ Len(cbs["cita"].log) = 5
  /\ cbs["cita"].log[3].from = StateHalfOpen /\ cbs["cita"].log[3].to = StateOpen
  /\ cbs["cita"].log[5].from = StateHalfOpen /\ cbs["cita"].log[5].to = StateClosed
  /\ cbs["cita"].state = StateClosed

C34_ClosedAdmitsAll ==
  [][\A a \in Agents :
       Refuses(a) /\ cfg.Enabled[a] /\ cfg.URL[a] # ""
       => /\ currentState(cbs[a], now).state # StateClosed
          /\ last'.ret.err \in {ErrOpenState, ErrTooManyRequests}
          /\ last'.ret.err = ErrOpenState => cbs[a].state = StateOpen /\ cbs[a].expiry >= now
          /\ last'.ret.err = ErrTooManyRequests
               => /\ cbs[a].state = StateHalfOpen
                  /\ cbs[a].counts.Requests >= MaxRequests]_vars

(* A Closed breaker has admitted more invocations than the probe limit in  *)
(* its window and holds as many in flight as there are callers.            *)
C34_Witness ==
  /\ cbs["cita"].state = StateClosed
  /\ cbs["cita"].counts.Requests > MaxRequests
  /\ InFlightNow("cita") = BagCardinality(calls) /\ BagCardinality(calls) > 1
  /\ cfg.Enabled["cita"]

(* C35: for a request whose invocation has returned, the handler has       *)
(* recorded exactly two samples, one request count and one duration, both  *)
(* labelled with the agent the request was routed to, the count with       *)
(* status ok when the invocation returned no error and error otherwise;    *)
(* it records nothing when the invocation is admitted, only at its return. *)
C35_OneCountOneDuration ==
  /\ [](last.agent # ""
        => /\ Len(last.metrics) = 2
           /\ last.metrics[1].name = "gateway_requests_total"
           /\ last.metrics[2].name = "gateway_request_duration_seconds"
           /\ last.metrics[1].agent = ModalidadToAgent(last.req.modalidad)
           /\ last.metrics[2].agent = last.metrics[1].agent
           /\ last.metrics[1].agent = last.agent
           /\ last.metrics[1].status = "ok" <=> last.ret.err = NoErr
           /\ last.metrics[1].status = "error" <=> last.ret.err # NoErr)
  /\ [][\A a \in Agents : Admits(a) => last'.metrics = last.metrics]_vars

(* A request for the venta agent, which is switched off, has been counted  *)
(* as an error of venta.                                                   *)
C35_Witness ==
  /\ last.ret.err = ErrDisabled /\ last.agent = "venta"
  /\ last.metrics[1] = [name |-> "gateway_requests_total", agent |-> "venta",
                         status |-> "error"]
  /\ Len(last.metrics) = 2

(* C36: when the handler has answered a request for which it derived the   *)
(* per-call context, whether the invocation succeeded, failed or was       *)
(* refused, it has released that context; the contexts derived and not     *)
(* released are those of the invocations still in flight, one each.        *)
C36_Released ==
  /\ [](last.agent # "" => last.released)
  /\ [](\A c \in InFlight : ~c.ctx.released)
  /\ [][\A c \in InFlight : Returns(c) => last'.released /\ last'.req = c.req]_vars

(* A reply has come back before the deadline of its context, which was     *)
(* released, while another request is still in flight.                     *)
C36_Witness ==
  /\ last.ret.err = NoErr /\ last.runs = 1 /\ last.released
  /\ now = 0
  /\ calls # EmptyBag

(* C37: when an invocation returns that was admitted in a generation of    *)
(* its breaker that is over (the breaker has changed state since, or has   *)
(* started a new window), the breaker is afterwards what the clock alone   *)
(* makes of it at that moment, the same for a success and for a failure:   *)
(* its state and counters take nothing from the outcome, and a failure of  *)
(* a call admitted while Closed leaves a Half-Open breaker Half-Open.      *)
C37_LateOutcomeIgnored ==
  [][\A c \in InFlight :
       Returns(c) /\ c.gen # currentState(cbs[c.agent], now).generation
       => /\ cbs'[c.agent] = currentState(cbs[c.agent], now)
          /\ cbs[c.agent].expiry >= now => cbs'[c.agent] = cbs[c.agent]
          /\ cbs[c.agent].state = StateHalfOpen
               => cbs'[c.agent].state = StateHalfOpen]_vars

(* A call admitted while the breaker was Closed has failed after a probe   *)
(* of the Half-Open period had succeeded: the breaker is still Half-Open.  *)
C37_Witness ==
  /\ cbs["cita"].state = StateHalfOpen
  /\ cbs["cita"].counts.TotalSuccesses = 1
  /\ last.admit = StateClosed /\ last.ret.err # NoErr /\ last.runs = 1

(* C38: a step in which the breaker refuses an invocation, as Open or as   *)
(* Half-Open with its probes used up, leaves the breaker's state, its      *)
(* generation, its counters (consecutive and total failures, requests)     *)
(* and its expiry, the end of the running cool-down, as they were.         *)
C38_RefusalFrame ==
  [][\A a \in Agents :
       Refuses(a) /\ last'.ret.err \in {ErrOpenState, ErrTooManyRequests}
       => /\ cbs'[a].state = cbs[a].state
          /\ cbs'[a].generation = cbs[a].generation
          /\ cbs'[a].counts = cbs[a].counts
          /\ cbs'[a].expiry = cbs[a].expiry
          /\ hist'[a] = hist[a]
          /\ cbs'[a].log = cbs[a].log]_vars

(* An Open breaker that tripped at the start has refused an invocation in  *)
(* the last moment of its cool-down: the cool-down still ends 60 s after   *)
(* the trip and the breaker counts nothing.                                *)
C38_Witness ==
  /\ last.ret.err = ErrOpenState /\ last.runs = 0
  /\ cbs["cita"].state = StateOpen /\ cbs["cita"].expiry = Timeout
  /\ cbs["cita"].counts = ZeroCounts
  /\ now = Timeout

====
